---- MODULE Spec2Model ----
(***************************************************************************)
(* Model of the PPTX archive rewriter of compress_office (src/src/pptx.rs): *)
(* compress_pptx_with_quality, compress_image, is_image_file, optimize_xml. *)
(*                                                                         *)
(* Text and bytes are sequences of one-character strings.  Entry names are *)
(* sequences of characters too, so that ends_with and to_lowercase are     *)
(* computed on the characters and not assumed.                             *)
(*                                                                         *)
(* What the zip and image crates do is drawn, not computed: whether the    *)
(* input opens and parses, whether by_index can open an entry and its      *)
(* payload can be read (fixed per entry: the archive decides it, so the    *)
(* pre-scan and the loop see the same answer), whether start_file,         *)
(* write_all, finish and metadata succeed, and what the image decoder and  *)
(* encoder return for a buffer.                                            *)
(***************************************************************************)
EXTENDS Integers, Sequences, FiniteSets, TLC

VARIABLES
    archive,            \* the entries the input ZIP holds, in index order
    pc,                 \* position inside compress_pptx_with_quality
    input_file,         \* TRUE once File::open(input_path) returned Ok
    archive_parsed,     \* TRUE once ZipArchive::new returned Ok
    total_images,       \* pptx.rs:19
    out_file,           \* "untouched" | "created" | "finished"
    out_entries,        \* entries of the destination archive, in write order
    stats,              \* CompressionStats, pptx.rs:31
    processed_images,   \* pptx.rs:33
    i,                  \* loop index of pptx.rs:35 (1-based)
    callbacks,          \* arguments of every progress_callback invocation
    last,               \* what the most recent loop iteration did
    result,             \* "pending" | "Ok" | the error returned
    report,             \* <<>> or <<stats>> as formatted into the Ok string
    xml,                \* optimize_xml: the input text
    once,               \* optimize_xml(xml)
    twice,              \* optimize_xml(optimize_xml(xml))
    xpc,                \* position of the minifier run
    name,               \* entry name handed to the dispatch
    class,              \* branch of pptx.rs:39/48/67 taken for name
    npc                 \* position of the dispatch run

vars == <<archive, pc, input_file, archive_parsed, total_images, out_file,
          out_entries, stats, processed_images, i, callbacks, last, result,
          report, xml, once, twice, xpc, name, class, npc>>

rewriterVars == <<archive, pc, input_file, archive_parsed, total_images,
                  out_file, out_entries, stats, processed_images, i,
                  callbacks, last, result, report>>
xmlVars == <<xml, once, twice, xpc>>
nameVars == <<name, class, npc>>

----------------------------------------------------------------------------
(* Bounds *)

MaxEntries == 2
MaxLen == 4
MaxStemLen == 2

----------------------------------------------------------------------------
(* Characters *)

LF == "\n"
CR == "\r"
TAB == "\t"
SP == " "
\* a byte that is not valid UTF-8
BAD == "xFF"

\* char::is_whitespace restricted to the characters of the model
IsWhitespace(c) == c \in {SP, TAB, LF, CR}

UpperChars == <<"A","B","C","D","E","F","G","H","I","J","K","L","M",
                "N","O","P","Q","R","S","T","U","V","W","X","Y","Z">>
LowerChars == <<"a","b","c","d","e","f","g","h","i","j","k","l","m",
                "n","o","p","q","r","s","t","u","v","w","x","y","z">>

ToLowerChar(c) ==
    IF \E k \in 1..Len(UpperChars) : UpperChars[k] = c
    THEN LowerChars[CHOOSE k \in 1..Len(UpperChars) : UpperChars[k] = c]
    ELSE c

\* str::to_lowercase
to_lowercase(s) == [k \in 1..Len(s) |-> ToLowerChar(s[k])]

\* str::ends_with
ends_with(s, suffix) ==
    /\ Len(s) >= Len(suffix)
    /\ SubSeq(s, Len(s) - Len(suffix) + 1, Len(s)) = suffix

SeqsUpTo(S, n) == UNION {[1..k -> S] : k \in 0..n}

----------------------------------------------------------------------------
(* is_image_file and the dispatch of the rewriter *)

DotXml == <<".","x","m","l">>
DotRels == <<".","r","e","l","s">>
ImageSuffixes == {<<".","p","n","g">>, <<".","j","p","g">>,
                  <<".","j","p","e","g">>, <<".","g","i","f">>,
                  <<".","b","m","p">>, <<".","e","m","f">>,
                  <<".","w","m","f">>}

is_image_file(filename) ==
    LET lower == to_lowercase(filename)
    IN  \E suffix \in ImageSuffixes : ends_with(lower, suffix)

\* the first test of the if / else if / else chain
IsTextName(n) == ends_with(n, DotXml) \/ ends_with(n, DotRels)

Classify(n) ==
    IF IsTextName(n) THEN "TextPart"
    ELSE IF is_image_file(n) THEN "Image"
    ELSE "Opaque"

----------------------------------------------------------------------------
(* optimize_xml *)

RECURSIVE SplitInclusive(_)
\* str::split_inclusive('\n')
SplitInclusive(s) ==
    IF s = <<>> THEN <<>>
    ELSE IF \E k \in 1..Len(s) : s[k] = LF
         THEN LET k == CHOOSE k \in 1..Len(s) :
                           s[k] = LF /\ \A j \in 1..(k-1) : s[j] # LF
              IN  <<SubSeq(s, 1, k)>> \o SplitInclusive(SubSeq(s, k+1, Len(s)))
         ELSE <<s>>

\* a line loses its "\n", and a "\r" right before that "\n"
StripLineEnding(p) ==
    IF p # <<>> /\ p[Len(p)] = LF
    THEN LET q == SubSeq(p, 1, Len(p) - 1)
         IN  IF q # <<>> /\ q[Len(q)] = CR
             THEN SubSeq(q, 1, Len(q) - 1)
             ELSE q
    ELSE p

\* str::lines
Lines(s) ==
    LET parts == SplitInclusive(s)
    IN  [k \in 1..Len(parts) |-> StripLineEnding(parts[k])]

\* strips one leading whitespace character only
TrimStartOnce(s) ==
    IF s # <<>> /\ IsWhitespace(s[1]) THEN Tail(s) ELSE s

RECURSIVE TrimStart(_)
TrimStart(s) ==
    IF s # <<>> /\ IsWhitespace(s[1]) THEN TrimStart(Tail(s)) ELSE s

RECURSIVE TrimEnd(_)
TrimEnd(s) ==
    IF s # <<>> /\ IsWhitespace(s[Len(s)])
    THEN TrimEnd(SubSeq(s, 1, Len(s) - 1))
    ELSE s

\* str::trim
Trim(s) == TrimEnd(TrimStart(s))

RECURSIVE Join(_)
\* [&str]::join("")
Join(ls) == IF ls = <<>> THEN <<>> ELSE Head(ls) \o Join(Tail(ls))

NonEmpty(l) == l # <<>>

optimize_xml(x) ==
    LET ls == Lines(x)
        trimmed == [k \in 1..Len(ls) |-> Trim(ls[k])]
    IN  Join(SelectSeq(trimmed, NonEmpty))

----------------------------------------------------------------------------
(* compress_image *)

\* What the image crate does with a buffer: the format content sniffing
\* finds, whether with_guessed_format, decode and the encoder succeed, and
\* the bytes the encoder produces.  An unrecognised format cannot be decoded.
Encodings == {<<"p">>, <<"q","q">>}
Oracles ==
    {o \in [format : {"Png", "Jpeg", "Gif", "None"},
            guessOk : BOOLEAN, decodeOk : BOOLEAN, encodeOk : BOOLEAN,
            encoded : Encodings] :
        o.format = "None" => ~o.decodeOk}
NoOracle == [format |-> "None", guessOk |-> TRUE, decodeOk |-> FALSE,
             encodeOk |-> FALSE, encoded |-> <<"p">>]

ImgErr(e) == [ok |-> FALSE, err |-> e, img |-> <<>>]

\* keeps a re-encoded buffer of the same length as the input
SizeCheckStrict(compressed, data) ==
    IF Len(compressed) > Len(data)
    THEN ImgErr("NoImprovement")
    ELSE [ok |-> TRUE, err |-> "none", img |-> compressed]

SizeCheck(compressed, data) ==
    IF Len(compressed) >= Len(data)
    THEN ImgErr("NoImprovement")
    ELSE [ok |-> TRUE, err |-> "none", img |-> compressed]

compress_image(data, o) ==
    IF ~o.guessOk THEN ImgErr("FormatDetectError")
    ELSE IF ~o.decodeOk THEN ImgErr("DecodeError")
    ELSE IF o.format \in {"Png", "Jpeg"}
         THEN IF ~o.encodeOk THEN ImgErr("EncodeError")
              ELSE SizeCheck(o.encoded, data)
         ELSE ImgErr("UnsupportedFormat")

----------------------------------------------------------------------------
(* The archive *)

EntryNames == {<<"s",".","x","m","l">>, <<"S",".","X","M","L">>,
               <<"p",".","P","N","G">>, <<"q",".","j","p","g">>,
               <<"d",".","b","i","n">>}
Datas == {<<BAD>>, <<SP,"a",LF,"b">>}
\* "open": by_index fails on the entry (encrypted, unsupported method);
\* "read": the entry opens but its payload cannot be read (bad CRC)
Faults == {"none", "open", "read"}
Entries == [name : EntryNames, data : Datas, fault : Faults]

\* ZipArchive indexes its entries by name
Archives ==
    {a \in SeqsUpTo(Entries, MaxEntries) :
        \A j, k \in 1..Len(a) : j # k => a[j].name # a[k].name}

\* archive.by_index(i) returns Ok
ByIndexOk(e) == e.fault # "open"

\* String::from_utf8 accepts the bytes
ValidUtf8(data) == \A k \in 1..Len(data) : data[k] # BAD

saturating_sub(a, b) == IF a >= b THEN a - b ELSE 0

CompressionStatsDefault ==
    [total_files |-> 0, xml_files |-> 0, xml_saved |-> 0,
     images_compressed |-> 0, images_skipped |-> 0, image_saved |-> 0]

----------------------------------------------------------------------------
(* One iteration of the transform loop *)

IoOutcomes == {"none", "start_file", "write_all"}

Outcome ==
    [fail |-> "none", started |-> FALSE, called |-> FALSE, image |-> "n/a",
     payload |-> <<>>, written |-> FALSE, xml_files |-> 0, xml_saved |-> 0,
     images_compressed |-> 0, images_skipped |-> 0, image_saved |-> 0]

\* zip_writer.write_all(payload)?
Write(r, payload, io) ==
    [r EXCEPT !.payload = payload,
              !.written = (io # "write_all"),
              !.fail = IF io = "write_all" THEN "WriteError" ELSE "none"]

TextArm(r, e, io) ==
    IF e.fault = "read" THEN [r EXCEPT !.fail = "ReadError"]
    ELSE IF ~ValidUtf8(e.data) THEN [r EXCEPT !.fail = "EncodingError"]
    ELSE LET original_len == Len(e.data)
             optimized == optimize_xml(e.data)
             saved == saturating_sub(original_len, Len(optimized))
         IN  Write([r EXCEPT !.xml_files = 1, !.xml_saved = saved],
                   optimized, io)

\* counts a failed image as compressed
MatchCompressedMiscounted(r, buffer, res, io) ==
    IF res.ok
    THEN Write([r EXCEPT !.image = "Ok", !.images_compressed = 1,
                         !.image_saved =
                             saturating_sub(Len(buffer), Len(res.img))],
               res.img, io)
    ELSE Write([r EXCEPT !.image = res.err, !.images_compressed = 1],
               buffer, io)

MatchCompressed(r, buffer, res, io) ==
    IF res.ok
    THEN Write([r EXCEPT !.image = "Ok", !.images_compressed = 1,
                         !.image_saved =
                             saturating_sub(Len(buffer), Len(res.img))],
               res.img, io)
    ELSE Write([r EXCEPT !.image = res.err, !.images_skipped = 1],
               buffer, io)

ImageArm(r, e, io, o) ==
    LET called == [r EXCEPT !.called = TRUE]
    IN  IF e.fault = "read" THEN [called EXCEPT !.fail = "ReadError"]
        ELSE MatchCompressed(called, e.data, compress_image(e.data, o), io)

OpaqueArm(r, e, io) ==
    IF e.fault = "read" THEN [r EXCEPT !.fail = "ReadError"]
    ELSE Write(r, e.data, io)

Iteration(e, io, o) ==
    IF ~ByIndexOk(e) THEN [Outcome EXCEPT !.fail = "EntryError"]
    ELSE IF io = "start_file" THEN [Outcome EXCEPT !.fail = "StartFileError"]
    ELSE LET r == [Outcome EXCEPT !.started = TRUE]
         IN  IF IsTextName(e.name) THEN TextArm(r, e, io)
             ELSE IF is_image_file(e.name) THEN ImageArm(r, e, io, o)
             ELSE OpaqueArm(r, e, io)

\* lower-cases the name of the destination entry
StartFileLowercased(entries, n) ==
    Append(entries, [name |-> to_lowercase(n), data |-> <<>>, written |-> FALSE])

\* zip_writer.start_file(&name, options)
StartFile(entries, n) ==
    Append(entries, [name |-> n, data |-> <<>>, written |-> FALSE])

WriteAll(entries, payload) ==
    [entries EXCEPT ![Len(entries)] =
        [@ EXCEPT !.data = payload, !.written = TRUE]]

\* lets a failed write_all go unnoticed
PropagatesExceptWrite(fail) == fail \notin {"none", "WriteError"}

\* the ? operator of the loop body
Propagates(fail) == fail # "none"

----------------------------------------------------------------------------
(* compress_pptx_with_quality *)

RewriterIdle ==
    /\ archive = <<>>
    /\ pc = "idle"
    /\ input_file = FALSE
    /\ archive_parsed = FALSE
    /\ total_images = 0
    /\ out_file = "untouched"
    /\ out_entries = <<>>
    /\ stats = CompressionStatsDefault
    /\ processed_images = 0
    /\ i = 1
    /\ callbacks = <<>>
    /\ last = [index |-> 0, class |-> "none", image |-> "n/a",
               fail |-> "none", payload |-> <<>>]
    /\ result = "pending"
    /\ report = <<>>

XmlIdle == xml = <<>> /\ once = <<>> /\ twice = <<>> /\ xpc = "idle"
NameIdle == name = <<>> /\ class = "none" /\ npc = "idle"

Init ==
    /\ archive \in Archives
    /\ pc = "start"
    /\ input_file = FALSE
    /\ archive_parsed = FALSE
    /\ total_images = 0
    /\ out_file = "untouched"
    /\ out_entries = <<>>
    /\ stats = CompressionStatsDefault
    /\ processed_images = 0
    /\ i = 1
    /\ callbacks = <<>>
    /\ last = [index |-> 0, class |-> "none", image |-> "n/a",
               fail |-> "none", payload |-> <<>>]
    /\ result = "pending"
    /\ report = <<>>
    /\ XmlIdle
    /\ NameIdle

Fail(e) == pc' = "done" /\ result' = e

\* File::open(input_path)?
OpenInput ==
    /\ pc = "start"
    /\ \E ok \in BOOLEAN :
        IF ok THEN pc' = "opened" /\ input_file' = TRUE /\ result' = result
        ELSE Fail("OpenError") /\ input_file' = input_file
    /\ UNCHANGED <<archive, archive_parsed, total_images, out_file,
                   out_entries, stats, processed_images, i, callbacks, last,
                   report, xmlVars, nameVars>>

\* goes on after a failed parse
ParseArchiveUnchecked ==
    /\ pc = "opened"
    /\ \E ok \in BOOLEAN :
        /\ pc' = "parsed"
        /\ archive_parsed' = ok
        /\ result' = result
    /\ UNCHANGED <<archive, input_file, total_images, out_file, out_entries,
                   stats, processed_images, i, callbacks, last, report,
                   xmlVars, nameVars>>

\* ZipArchive::new(input_file)?
ParseArchive ==
    /\ pc = "opened"
    /\ \E ok \in BOOLEAN :
        IF ok THEN pc' = "parsed" /\ archive_parsed' = TRUE /\ result' = result
        ELSE Fail("ArchiveFormatError") /\ archive_parsed' = archive_parsed
    /\ UNCHANGED <<archive, input_file, total_images, out_file, out_entries,
                   stats, processed_images, i, callbacks, last, report,
                   xmlVars, nameVars>>

\* the count of pptx.rs:19-22: entries by_index cannot open are dropped
CountImages(a) ==
    Cardinality({k \in 1..Len(a) :
                    ByIndexOk(a[k]) /\ is_image_file(a[k].name)})

PreScan ==
    /\ pc = "parsed"
    /\ total_images' = CountImages(archive)
    /\ pc' = "scanned"
    /\ UNCHANGED <<archive, input_file, archive_parsed, out_file, out_entries,
                   stats, processed_images, i, callbacks, last, result,
                   report, xmlVars, nameVars>>

\* File::create(output_path)?, then stats and processed_images are set up
CreateOutput ==
    /\ pc = "scanned"
    /\ \E ok \in BOOLEAN :
        IF ok
        THEN /\ out_file' = "created"
             /\ stats' = [CompressionStatsDefault EXCEPT
                              !.total_files = Len(archive)]
             /\ processed_images' = 0
             /\ pc' = "loop"
             /\ result' = result
        ELSE /\ Fail("OutputError")
             /\ UNCHANGED <<out_file, stats, processed_images>>
    /\ UNCHANGED <<archive, input_file, archive_parsed, total_images,
                   out_entries, i, callbacks, last, report, xmlVars, nameVars>>

\* the body of the for loop, pptx.rs:36-71
ProcessEntry ==
    /\ pc = "loop"
    /\ i <= Len(archive)
    /\ \E e \in {archive[i]} :
       \E r \in {Iteration(e, io, o) :
                    io \in IoOutcomes,
                    o \in (IF is_image_file(e.name) THEN Oracles ELSE {NoOracle})} :
            /\ out_entries' =
                   IF ~r.started THEN out_entries
                   ELSE IF r.written
                        THEN WriteAll(StartFile(out_entries, e.name), r.payload)
                        ELSE StartFile(out_entries, e.name)
            /\ stats' = [stats EXCEPT
                   !.xml_files = @ + r.xml_files,
                   !.xml_saved = @ + r.xml_saved,
                   !.images_compressed = @ + r.images_compressed,
                   !.images_skipped = @ + r.images_skipped,
                   !.image_saved = @ + r.image_saved]
            /\ processed_images' =
                   IF r.called THEN processed_images + 1 ELSE processed_images
            /\ callbacks' =
                   IF r.called
                   THEN Append(callbacks, <<processed_images + 1, total_images>>)
                   ELSE callbacks
            /\ last' = [index |-> i, class |-> Classify(e.name),
                        image |-> r.image, fail |-> r.fail,
                        payload |-> r.payload]
            /\ IF Propagates(r.fail)
               THEN Fail(r.fail) /\ i' = i
               ELSE pc' = "loop" /\ i' = i + 1 /\ result' = result
    /\ UNCHANGED <<archive, input_file, archive_parsed, total_images,
                   out_file, report, xmlVars, nameVars>>

\* zip_writer.finish()?
Finish ==
    /\ pc = "loop"
    /\ i > Len(archive)
    /\ \E ok \in BOOLEAN :
        IF ok THEN out_file' = "finished" /\ pc' = "report" /\ result' = result
        ELSE Fail("FinalizeError") /\ out_file' = out_file
    /\ UNCHANGED <<archive, input_file, archive_parsed, total_images,
                   out_entries, stats, processed_images, i, callbacks, last,
                   report, xmlVars, nameVars>>

\* std::fs::metadata(..)? twice, then Ok(format!(..))
Report ==
    /\ pc = "report"
    /\ \E ok \in BOOLEAN :
        IF ok THEN pc' = "done" /\ result' = "Ok" /\ report' = <<stats>>
        ELSE Fail("MetadataError") /\ report' = report
    /\ UNCHANGED <<archive, input_file, archive_parsed, total_images,
                   out_file, out_entries, stats, processed_images, i,
                   callbacks, last, xmlVars, nameVars>>

Next ==
    \/ OpenInput
    \/ ParseArchive
    \/ PreScan
    \/ CreateOutput
    \/ ProcessEntry
    \/ Finish
    \/ Report

Spec == Init /\ [][Next]_vars

----------------------------------------------------------------------------
(* optimize_xml run on its own, once and then on its own output *)

XmlChars == {"a", "b", SP, LF, CR}

InitXml ==
    /\ RewriterIdle
    /\ NameIdle
    /\ xml \in SeqsUpTo(XmlChars, MaxLen)
    /\ once = <<>>
    /\ twice = <<>>
    /\ xpc = "in"

Minify ==
    /\ xpc = "in"
    /\ once' = optimize_xml(xml)
    /\ xpc' = "once"
    /\ UNCHANGED <<xml, twice, rewriterVars, nameVars>>

MinifyAgain ==
    /\ xpc = "once"
    /\ twice' = optimize_xml(once)
    /\ xpc' = "twice"
    /\ UNCHANGED <<xml, once, rewriterVars, nameVars>>

NextXml == Minify \/ MinifyAgain

SpecXml == InitXml /\ [][NextXml]_vars

----------------------------------------------------------------------------
(* The dispatch of the loop body run on a name *)

StemChars == {"a", ".", "X"}
Suffixes ==
    {<<>>, <<"x","m","l">>, <<".","x","m","l">>, <<".","X","M","L">>,
     <<".","X","m","l">>, <<".","x","m","l","s">>,
     <<".","r","e","l","s">>, <<".","R","E","L","S">>, <<".","R","e","l","s">>,
     <<".","p","n","g">>, <<".","P","N","G">>, <<".","j","p","g">>,
     <<".","J","P","G">>, <<".","j","p","e","g">>, <<".","J","p","e","g">>,
     <<".","g","i","f">>, <<".","G","I","F">>, <<".","b","m","p">>,
     <<".","B","M","P">>, <<".","e","m","f">>, <<".","E","M","F">>,
     <<".","w","m","f">>, <<".","W","M","F">>, <<".","p","n","g","/">>,
     <<".","b","i","n">>, <<".","t","x","t">>}
Names == {stem \o suffix : stem \in SeqsUpTo(StemChars, MaxStemLen),
                           suffix \in Suffixes}

InitName ==
    /\ RewriterIdle
    /\ XmlIdle
    /\ name \in Names
    /\ class = "none"
    /\ npc = "in"

Dispatch ==
    /\ npc = "in"
    /\ class' = Classify(name)
    /\ npc' = "done"
    /\ UNCHANGED <<name, rewriterVars, xmlVars>>

NextName == Dispatch

SpecName == InitName /\ [][NextName]_vars

----------------------------------------------------------------------------
(* Properties *)

NameSet(es) == {es[k].name : k \in 1..Len(es)}
ImageErrors == {"FormatDetectError", "DecodeError", "EncodeError",
                "UnsupportedFormat", "NoImprovement"}
TransformFailures == {"EntryError", "StartFileError", "ReadError",
                      "EncodingError", "WriteError"}

\* The classification as specified: every suffix is matched on the
\* lower-cased name.
SpecifiedClass(n) ==
    LET lower == to_lowercase(n)
    IN  IF ends_with(lower, DotXml) \/ ends_with(lower, DotRels) THEN "TextPart"
        ELSE IF \E suffix \in ImageSuffixes : ends_with(lower, suffix) THEN "Image"
        ELSE "Opaque"

CountClass(a, c) ==
    Cardinality({k \in 1..Len(a) : SpecifiedClass(a[k].name) = c})

\* C1: a call that returned Ok has written exactly one output entry per
\* input entry, under the same name: as many entries as the input has, and
\* the same set of names.
C1_EntryConservation ==
    result = "Ok" =>
        /\ Len(out_entries) = Len(archive)
        /\ NameSet(out_entries) = NameSet(archive)
        /\ \A k \in 1..Len(archive) :
              Cardinality({j \in 1..Len(out_entries) :
                              out_entries[j].name = archive[k].name}) = 1
        /\ \A j \in 1..Len(out_entries) : out_entries[j].written

\* C1 witness: an Ok call on a two-entry archive that holds an upper-case
\* name and an image whose re-encoding failed.
C1_Witness ==
    /\ result = "Ok"
    /\ Len(archive) >= 2
    /\ \E k \in 1..Len(archive) : archive[k].name # to_lowercase(archive[k].name)
    /\ stats.images_skipped >= 1

\* C2 (as claimed): the k-th invocation of the callback gets processed = k
\* and total = the number of image-classified entries of the archive, and a
\* call that returned Ok has invoked it once per image-classified entry.
C2_ProgressAsClaimed ==
    /\ \A k \in 1..Len(callbacks) :
          callbacks[k] = <<k, CountClass(archive, "Image")>>
    /\ result = "Ok" => Len(callbacks) = CountClass(archive, "Image")

\* C3: when compress_image fails on an image entry, the iteration hands the
\* original bytes to the writer, adds 1 to images_skipped, leaves
\* images_compressed and image_saved alone, never returns the image error,
\* and, the write succeeding, the output entry is the original bytes and the
\* loop goes on to the next entry.
C3_ImageFailureRecovered ==
    [][(pc = "loop" /\ last'.index = i /\ last'.image \in ImageErrors) =>
          /\ last'.payload = archive[i].data
          /\ stats'.images_skipped = stats.images_skipped + 1
          /\ stats'.images_compressed = stats.images_compressed
          /\ stats'.image_saved = stats.image_saved
          /\ result' \notin ImageErrors
          /\ result' \in {"pending", "WriteError"}
          /\ last'.fail = "none" =>
                /\ result' = "pending"
                /\ pc' = "loop"
                /\ i' = i + 1
                /\ out_entries' = Append(out_entries,
                       [name |-> archive[i].name, data |-> archive[i].data,
                        written |-> TRUE])]_vars

\* C3 witness: an image entry whose re-encoding failed was written and the
\* loop is at the next entry.
C3_Witness ==
    /\ pc = "loop"
    /\ last.image \in ImageErrors
    /\ last.fail = "none"
    /\ stats.images_skipped = 1
    /\ i = last.index + 1
    /\ i <= Len(archive)

\* C4: compress_image returns Ok only with a buffer strictly shorter than
\* its input, so every image entry written to the output is strictly
\* shorter than the input entry or is the input entry's bytes.
C4_NoGrowth ==
    /\ last.image = "Ok" => Len(last.payload) < Len(archive[last.index].data)
    /\ \A k \in 1..Len(out_entries) :
          (out_entries[k].written /\ is_image_file(out_entries[k].name)) =>
              \/ Len(out_entries[k].data) < Len(archive[k].data)
              \/ out_entries[k].data = archive[k].data

\* C4 witness: one image was re-encoded to fewer bytes and another, whose
\* re-encoding was no shorter, was kept as it was.
C4_Witness ==
    /\ Len(out_entries) = 2
    /\ out_entries[1].written /\ out_entries[2].written
    /\ is_image_file(out_entries[1].name) /\ is_image_file(out_entries[2].name)
    /\ Len(out_entries[1].data) < Len(archive[1].data)
    /\ out_entries[2].data = archive[2].data
    /\ last.image = "NoImprovement"

\* C5 (as claimed): the branch the rewriter takes for a name is the class
\* its lower-cased suffix gives.
C5_DispatchAsClaimed ==
    npc = "done" => class = SpecifiedClass(name)

NonWhitespace(s) == SelectSeq(s, LAMBDA c : ~IsWhitespace(c))

\* C6 (as claimed): the output of optimize_xml holds neither a line feed
\* nor a carriage return, and its non-whitespace characters are those of
\* the input in the same order.
C6_MinifierAsClaimed ==
    xpc # "in" =>
        /\ \A k \in 1..Len(once) : once[k] \notin {LF, CR}
        /\ NonWhitespace(once) = NonWhitespace(xml)

\* C7: optimize_xml applied to its own output returns that output, and
\* optimize_xml of the empty text is the empty text.
C7_Idempotent ==
    /\ (xpc \in {"once", "twice"} /\ xml = <<>>) => once = <<>>
    /\ xpc = "twice" => twice = once

\* C7 witness: a text the first pass shortened, to a text that is not
\* empty, was minified a second time.
C7_Witness ==
    /\ xpc = "twice"
    /\ once # xml
    /\ once # <<>>

\* C8: the output file is created, and the callback invoked, only after
\* the input was opened and parsed as an archive; a call that failed to
\* open or to parse has touched neither.
C8_NoOutputBeforeParse ==
    /\ (out_file # "untouched" \/ callbacks # <<>> \/ out_entries # <<>>) =>
          (input_file /\ archive_parsed)
    /\ (pc \notin {"start", "opened"} /\ ~(input_file /\ archive_parsed)) =>
          /\ pc = "done"
          /\ result \in {"OpenError", "ArchiveFormatError"}
          /\ out_file = "untouched"
          /\ callbacks = <<>>

\* C8 witness: the call returned the archive-format error.
C8_Witness ==
    /\ result = "ArchiveFormatError"
    /\ input_file
    /\ Len(archive) >= 1

C10_StatsAsClaimed ==
    /\ pc \in {"loop", "report"} \/ result = "Ok" =>
          /\ stats.images_compressed + stats.images_skipped = Len(callbacks)
          /\ stats.images_compressed + stats.images_skipped <= total_images
          /\ stats.xml_files + stats.images_compressed + stats.images_skipped
                <= stats.total_files
    /\ result = "Ok" =>
          /\ stats.images_compressed + stats.images_skipped = total_images
          /\ stats.xml_files = CountClass(archive, "TextPart")
          /\ stats.total_files = Len(archive)
          /\ report = <<stats>>

\* The accounting of C10 with the text parts counted as the loop
\* dispatches them (IsTextName): this form holds.
StatsAccountingAsDispatched ==
    /\ pc \in {"loop", "report"} \/ result = "Ok" =>
          /\ stats.images_compressed + stats.images_skipped = Len(callbacks)
          /\ stats.images_compressed + stats.images_skipped <= total_images
          /\ stats.xml_files + stats.images_compressed + stats.images_skipped
                <= stats.total_files
    /\ result = "Ok" =>
          /\ stats.images_compressed + stats.images_skipped = total_images
          /\ stats.xml_files =
                Cardinality({k \in 1..Len(archive) : IsTextName(archive[k].name)})
          /\ stats.total_files = Len(archive)
          /\ report = <<stats>>

\* What holds of the callback arguments (C2): the k-th invocation gets
\* <<k, total_images>>, total_images is the count of the pre-scan, and a
\* call that returned Ok made one invocation per image entry with the
\* true total.
ProgressAsComputed ==
    /\ \A k \in 1..Len(callbacks) : callbacks[k] = <<k, CountImages(archive)>>
    /\ result = "Ok" =>
          /\ Len(callbacks) = CountClass(archive, "Image")
          /\ total_images = CountClass(archive, "Image")

\* What holds of the minifier output (C6): no line feed, the
\* non-whitespace characters kept in order, and a carriage return only
\* strictly inside the text.
MinifierKeepsInnerCR ==
    xpc # "in" =>
        /\ \A k \in 1..Len(once) : once[k] # LF
        /\ NonWhitespace(once) = NonWhitespace(xml)
        /\ \A k \in 1..Len(once) : once[k] = CR => (1 < k /\ k < Len(once))

====
